---- MODULE Spec2Model ----
(***************************************************************************)
(* Blazemark: the incremental build pipeline of src/blazemark.py.          *)
(*                                                                         *)
(* The state is the content tree, the persisted cache snapshot, the        *)
(* output tree, and the fields and locals of one Blazemark process running *)
(* build().  A document's raw text is a record of what the code reads from *)
(* it: the front-matter keys draft / tags / category / date and the body.  *)
(* A tag or category name is a string, written as a sequence of character  *)
(* codes so that Python's `in` on a string (substring test) can be told    *)
(* from `in` on a list (membership).                                       *)
(***************************************************************************)
EXTENDS Naturals, Sequences, FiniteSets

\* ---------------------------------------------------------------- bounds
MaxBody == 2      \* bodies are 0..MaxBody; body 0 is one the converter/template rejects
MaxBuilds == 2    \* build invocations in one behaviour
MaxEdits == 1     \* edits of the content tree in one behaviour
MaxDate == 2      \* declared dates are 1..MaxDate
MaxLines == 4     \* lines of a raw text given to parse_front_matter on its own

\* ---------------------------------------------------------- content tree
\* CONTENT_DIR holds *.md posts; sorted() gives the discovery order.
PathOrder == <<"a.md", "b.md">>

Paths == {PathOrder[i] : i \in 1..Len(PathOrder)}

\* CONTENT_DIR/pages holds *.md pages, discovered after the posts
PageOrder == <<"pages/a.md">>

PagePaths == {PageOrder[i] : i \in 1..Len(PageOrder)}

Files == Paths \cup PagePaths

\* Path.stem
safe_slug(p) == CASE p = "a.md" -> "a"
                  [] p = "b.md" -> "b"
                  [] p = "pages/a.md" -> "a"

\* names: "a" = <<1>>, "b" = <<2>>, "ab" = <<1, 2>>
NameA == <<1>>
NameB == <<2>>
NameAB == <<1, 2>>

\* a tags / category value as YAML delivers it: key absent, a scalar string,
\* or a list of strings (val holds the one string, or the list's items)
Absent == [kind |-> "absent", val |-> <<>>]
Scalar(s) == [kind |-> "str", val |-> <<s>>]
List(l) == [kind |-> "list", val |-> l]

TaxValues == <<Absent, Scalar(NameAB), List(<<NameA>>), List(<<NameA, NameB>>)>>

\* the front-matter profiles the content tree is drawn from; date 0 is "no
\* date key", a date d > 0 is the datetime.date YAML parses
Profiles ==
    { [tags |-> Absent,              category |-> Absent,           date |-> 0],
      [tags |-> Scalar(NameAB),      category |-> List(<<NameA>>),  date |-> 1],
      [tags |-> List(<<NameA>>),     category |-> Scalar(NameAB),   date |-> MaxDate] }

Texts ==
    { [body |-> b, draft |-> d, tags |-> p.tags, category |-> p.category, date |-> p.date] :
        b \in 0..MaxBody, d \in BOOLEAN, p \in Profiles }

\* ------------------------------------------------------------- utilities
Put(f, k, v) == [x \in DOMAIN f \cup {k} |-> IF x = k THEN v ELSE f[x]]

Empty == [x \in {} |-> {}]

Range(s) == {s[i] : i \in 1..Len(s)}

IndexOf(seq, v) == CHOOSE i \in 1..Len(seq) : seq[i] = v

\* a digest of the body alone, the front matter left out
compute_hash_BodyOnly(text) == text.body

\* compute_hash: a digest of the full raw text, front matter included.  SHA-1
\* is taken to be collision free on the texts of the model: the digest is an
\* injective encoding of every field of the text.
compute_hash(text) ==
    ((((text.body * 2 + (IF text.draft THEN 1 ELSE 0)) * (Len(TaxValues) + 1)
        + IndexOf(TaxValues, text.tags)) * (Len(TaxValues) + 1)
        + IndexOf(TaxValues, text.category)) * (MaxDate + 1)) + text.date

\* parse_front_matter: (meta, body).  Every text of the model opens with a
\* well-formed block, so meta is the parsed mapping.
parse_front_matter(text) ==
    [meta |-> [draft |-> text.draft, tags |-> text.tags,
               category |-> text.category, date |-> text.date],
     body |-> text.body]

\* ---------------------------------------------- front matter, line by line
\* A raw text as its lines: the delimiter, a YAML line that is a key with a
\* value, a YAML line that opens a flow sequence and never closes it, a line
\* of plain text, an empty line.
Lines == {"---", "k: v", "k: [", "text", ""}

\* every text of up to n lines
RECURSIVE TextsUpTo(_)
TextsUpTo(n) ==
    IF n = 0 THEN {<<>>}
    ELSE LET shorter == TextsUpTo(n - 1)
         IN  shorter \cup {Append(t, l) : t \in {u \in shorter : Len(u) = n - 1}, l \in Lines}

\* text.startswith('---')
StartsWithDelimiter(text) == Len(text) > 0 /\ text[1] = "---"

\* the places of the delimiter after the opening one
LaterDelimiters(text) == {i \in 2..Len(text) : text[i] = "---"}

\* text.split('---', 2) of a text that starts with the delimiter: parts[0] is
\* empty, parts[1] runs to the second delimiter, parts[2] is all that follows
\* it; without a second delimiter there are two parts only
split(text) ==
    IF LaterDelimiters(text) = {}
      THEN <<<<>>, SubSeq(text, 2, Len(text))>>
      ELSE LET i == CHOOSE k \in LaterDelimiters(text) : \A m \in LaterDelimiters(text) : k <= m
           IN  <<<<>>, SubSeq(text, 2, i - 1), SubSeq(text, i + 1, Len(text))>>

\* yaml.safe_load of a block: it raises on an unclosed flow sequence and on
\* key lines mixed with plain lines; a block of empty lines is None; key lines
\* give a mapping, plain lines one scalar string
safe_load(block) ==
    LET has(l) == \E i \in 1..Len(block) : block[i] = l
    IN  IF has("k: [") \/ (has("k: v") /\ has("text")) THEN [kind |-> "raises"]
        ELSE IF has("k: v") THEN [kind |-> "mapping"]
        ELSE IF has("text") THEN [kind |-> "str"]
        ELSE [kind |-> "none"]

\* {} as meta
EmptyMeta == [kind |-> "empty"]

\* parts[2].lstrip('\n'): the newline that ends the delimiter line and the
\* empty lines after it go
RECURSIVE lstrip(_)
lstrip(lines) ==
    IF lines # <<>> /\ lines[1] = "" THEN lstrip(Tail(lines)) ELSE lines

\* parse_front_matter on the raw text, lines 46-58
parse_front_matter_raw(text) ==
    IF StartsWithDelimiter(text) /\ Len(split(text)) >= 3
      THEN LET parts == split(text)
               loaded == safe_load(parts[2])
               meta == IF loaded.kind \in {"raises", "none"} THEN EmptyMeta ELSE loaded
           IN  [called |-> TRUE, meta |-> meta, body |-> lstrip(parts[3])]
      ELSE [called |-> TRUE, meta |-> EmptyMeta, body |-> text]

NotCalled == [called |-> FALSE, meta |-> EmptyMeta, body |-> <<>>]

\* ---------------------------------------------------------------- state
VARIABLES
    content,        \* CONTENT_DIR: path -> raw text, for the files that exist
    cacheFile,      \* CACHE_FILE: [exists, corrupt, posts]
    public,         \* OUTPUT_DIR: [docs, home, tags, tagIndex, cats, catIndex]
    pc,             \* where the process is: idle, render, post, aggregate,
                    \* save, finish, done, aborted
    force,          \* build(force)
    cache,          \* self.cache["posts"]
    tasks,          \* tasks: the source paths dispatched, in discovery order
    pending,        \* futures not yet completed
    results,        \* results, in completion order
    ri,             \* how many results the write loop has handled
    raw_post_list,
    all_tags,
    all_categories,
    hookLog,        \* the on_after_render calls of this build, as plugins see them
    nSave,          \* _save_cache calls of this build
    finishLog,      \* the on_build_finished calls of this build, in call order
    before,         \* what the invocation found: output tree, snapshot, edits, last,
                    \* and in prev the invocation right before it, when that aborted
    dirty,          \* <<path, "body" | "draft">>: what differs from the content the
                    \* last completed build read
    last,           \* how the previous invocation ended: none, done, aborted
    nBuilds,
    nEdits,
    fm_text,        \* parse_front_matter on its own: the text it is given, as lines
    fm_out          \* and what the call gave back

vars == <<content, cacheFile, public, pc, force, cache, tasks, pending, results, ri,
          raw_post_list, all_tags, all_categories, hookLog, nSave, finishLog, before,
          dirty, last, nBuilds, nEdits, fm_text, fm_out>>

fm_vars == <<fm_text, fm_out>>

build_locals == <<force, cache, tasks, pending, results, ri, raw_post_list, all_tags,
                  all_categories, hookLog, nSave, finishLog, before>>

NoPage == [exists |-> FALSE, posts |-> <<>>, tags |-> <<>>, cats |-> <<>>]

EmptyTree == [docs |-> Empty, home |-> NoPage, tags |-> Empty, tagIndex |-> NoPage,
              cats |-> Empty, catIndex |-> NoPage]

\* CACHE_FILE as _save_cache leaves it, and a site without one.  A corrupt
\* file keeps in posts what it was written from, which json.loads cannot get
\* back.
Snapshot(posts) == [exists |-> TRUE, corrupt |-> FALSE, posts |-> posts]

NoSnapshot == [exists |-> FALSE, corrupt |-> FALSE, posts |-> Empty]

\* the invocation right before this one: aborted, with nothing edited since,
\* or not
NoPrev == [aborted |-> FALSE, tasks |-> {}, force |-> FALSE]

\* no process is running: pc is idle before the first invocation and after an
\* edit, done or aborted right after an invocation ended
Quiescent == pc \in {"idle", "done", "aborted"}

\* no snapshot, an empty output directory, no invocation yet
Fresh ==
    /\ cacheFile = NoSnapshot
    /\ public = EmptyTree
    /\ pc = "idle"
    /\ force = FALSE
    /\ cache = Empty
    /\ tasks = <<>>
    /\ pending = {}
    /\ results = <<>>
    /\ ri = 0
    /\ raw_post_list = <<>>
    /\ all_tags = {}
    /\ all_categories = {}
    /\ hookLog = <<>>
    /\ nSave = 0
    /\ finishLog = <<>>
    /\ before = [public |-> EmptyTree, cacheFile |-> cacheFile, dirty |-> {}, last |-> "none",
                 prev |-> NoPrev]
    /\ dirty = {}
    /\ last = "none"
    /\ nBuilds = 0
    /\ nEdits = 0
    /\ fm_text = <<>>
    /\ fm_out = NotCalled

\* A fresh site: any content tree of posts that render.  A document that does
\* not render comes by an edit.
Init ==
    /\ content \in UNION {[S -> {t \in Texts : t.body > 0}] : S \in SUBSET Paths}
    /\ Fresh

\* ------------------------------------------------------- startup, step 1-3
\* lines 141-143 with the file's entries taken whatever json.loads says
load_cache_Salvage(file) == IF file.exists THEN file.posts ELSE Empty

\* lines 140-144 on a CACHE_FILE: the snapshot's "posts" mapping, or an empty
\* one when there is no file or json.loads raises on it
load_cache(file) == IF file.exists /\ ~file.corrupt THEN file.posts ELSE Empty

\* _load_cache, as __init__ calls it
_load_cache == load_cache(cacheFile)

\* discover_posts_and_pages: the files that exist, sorted
discover_posts_and_pages ==
    SelectSeq(PathOrder, LAMBDA p : p \in DOMAIN content)
        \o SelectSeq(PageOrder, LAMBDA p : p \in DOMAIN content)

\* line 195 without its `force or`
NeedsDispatch_NoForce(f, frc, posts) ==
    /\ ~(parse_front_matter(content[f]).meta.draft /\ ~frc)
    /\ \/ f \notin DOMAIN posts
       \/ posts[f].hash # compute_hash(content[f])

\* line 195 without its comparison of hashes
NeedsDispatch_NoHash(f, frc, posts) ==
    /\ ~(parse_front_matter(content[f]).meta.draft /\ ~frc)
    /\ \/ frc
       \/ f \notin DOMAIN posts

\* lines 191-195 without the draft test of line 191
NeedsDispatch_NoDraftSkip(f, frc, posts) ==
    \/ frc
    \/ f \notin DOMAIN posts
    \/ posts[f].hash # compute_hash(content[f])

\* the test of lines 191-195 for one file: not skipped as a draft, and force
\* set, or no entry, or another hash
NeedsDispatch(f, frc, posts) ==
    LET text == content[f]
        meta == parse_front_matter(text).meta
        h == compute_hash(text)
    IN  /\ ~(meta.draft /\ ~frc)
        /\ \/ frc
           \/ f \notin DOMAIN posts
           \/ posts[f].hash # h

\* Blazemark() then build(force) up to the dispatch: load the cache, discover,
\* decide per file, submit the tasks
Startup(frc) ==
    /\ Quiescent
    /\ nBuilds' = nBuilds + 1
    /\ force' = frc
    /\ cache' = _load_cache
    /\ tasks' = SelectSeq(discover_posts_and_pages,
                          LAMBDA f : NeedsDispatch(f, frc, _load_cache))
    /\ pending' = Range(tasks')
    /\ results' = <<>>
    /\ ri' = 0
    /\ raw_post_list' = <<>>
    /\ all_tags' = {}
    /\ all_categories' = {}
    /\ hookLog' = <<>>
    /\ nSave' = 0
    /\ finishLog' = <<>>
    /\ before' = [public |-> public, cacheFile |-> cacheFile, dirty |-> dirty, last |-> last,
                  prev |-> IF pc = "aborted"
                             THEN [aborted |-> TRUE, tasks |-> Range(tasks), force |-> force]
                             ELSE NoPrev]
    /\ pc' = IF tasks' = <<>> THEN "aggregate" ELSE "render"
    /\ UNCHANGED <<content, cacheFile, public, dirty, last, nEdits>>
    /\ UNCHANGED fm_vars

\* an invocation, of the MaxBuilds a behaviour holds
StartBuild(frc) == nBuilds < MaxBuilds /\ Startup(frc)

\* ------------------------------------------------------------ the workers
\* the converter or the template raises on this text
RenderRaises(text) == text.body = 0

\* render_post_worker: the worker re-reads and re-parses the source
render_post_worker(src) ==
    LET text == content[src]
        fm == parse_front_matter(text)
        slug == safe_slug(src)
    IN  [src |-> src,
         slug |-> slug,
         html |-> [page |-> [title |-> slug, content |-> fm.body, meta |-> fm.meta],
                   added |-> <<>>],
         meta |-> [draft |-> fm.meta.draft, tags |-> fm.meta.tags,
                   category |-> fm.meta.category, date |-> fm.meta.date,
                   content_raw |-> fm.body],
         url |-> slug]

\* the write loop taken up as soon as a result is in, with futures still out
AfterCollect_Streaming(left) == "post"

\* lines 200-203: the loop over as_completed ends, and the `with` block is
\* left, when no future is out; only then does build() go on to line 206
AfterCollect(left) == IF left = {} THEN "post" ELSE "render"

\* one future completes and as_completed hands it to the orchestrator:
\* fut.result() returns the record, or re-raises the worker's exception, which
\* nothing catches
Collect(f) ==
    /\ pc = "render"
    /\ f \in pending
    /\ pending' = pending \ {f}
    /\ IF RenderRaises(content[f])
         THEN /\ pc' = "aborted"
              /\ last' = "aborted"
              /\ UNCHANGED results
         ELSE /\ results' = Append(results, render_post_worker(f))
              /\ pc' = AfterCollect(pending')
              /\ UNCHANGED last
    /\ UNCHANGED <<content, cacheFile, public, force, cache, tasks, ri, raw_post_list,
                   all_tags, all_categories, hookLog, nSave, finishLog, before, dirty,
                   nBuilds, nEdits>>
    /\ UNCHANGED fm_vars

\* ------------------------------------------------------------ the plugins
\* self.plugins, in list order.  "stamp" appends the post's declared date and
\* raises KeyError on a post without one; "wordcount" appends a count taken
\* from the raw body.
plugins == <<"stamp", "wordcount">>

\* Post(src, slug, title, published, content_raw, meta, url)
Post(res) == [src |-> res.src, slug |-> res.slug, content |-> res.meta.content_raw,
              meta |-> res.meta, url |-> res.url]

\* p.on_after_render(post, html): the returned HTML, or raised
on_after_render(p, post, html) ==
    CASE p = "stamp" ->
            IF post.meta.date = 0
              THEN [raised |-> TRUE, html |-> html]
              ELSE [raised |-> FALSE,
                    html |-> [html EXCEPT !.added = Append(@, <<"stamp", post.meta.date>>)]]
      [] p = "wordcount" ->
            [raised |-> FALSE,
             html |-> [html EXCEPT !.added = Append(@, <<"wordcount", post.content>>)]]

\* line 215 with the return value dropped: every plugin gets the worker's HTML
HookStep_Broadcast(p, post, html) == html

\* the try / except of lines 213-224 for plugin i: res["html"] is assigned
\* the return value, and keeps its value when the hook raises
HookStep(p, post, html) ==
    LET r == on_after_render(p, post, html)
    IN  IF r.raised THEN html ELSE r.html

\* the loop of lines 213-224 from plugin i on: the final HTML and the calls made
RECURSIVE RunHooks(_, _, _)
RunHooks(i, res, html) ==
    IF i > Len(plugins)
      THEN [html |-> html, calls |-> <<>>]
      ELSE LET p == plugins[i]
               r == on_after_render(p, Post(res), html)
               rest == RunHooks(i + 1, res, HookStep(p, Post(res), html))
           IN  [html |-> rest.html,
                calls |-> <<[plugin |-> p, src |-> res.src, given |-> html,
                             raised |-> r.raised,
                             returned |-> r.html]>> \o rest.calls]

\* ---------------------------------------------------- the write loop, step 5
\* tags / category of a result as a list: a string is wrapped, lines 241-248
AsList(field) == Range(field.val)

\* the guard of line 226
IsWritten(res, frc) == ~res.meta.draft \/ frc

\* the cache entry of lines 230-234: the hash of the source as it reads now
CacheEntry(res) == [hash |-> compute_hash(content[res.src]), output |-> res.slug]

\* one iteration of `for res in results`: the hooks, then for a result that
\* is not a draft (or under force) the page, the cache entry and the
\* index / tag / category data
WriteResult ==
    /\ pc = "post"
    /\ ri < Len(results)
    /\ LET res == results[ri + 1]
           run == RunHooks(1, res, res.html)
           entry == [meta |-> res.meta, url |-> res.slug]
       IN  /\ hookLog' = hookLog \o run.calls
           /\ IF IsWritten(res, force)
                THEN /\ public' = [public EXCEPT !.docs = Put(@, res.slug, run.html)]
                     /\ cache' = Put(cache, res.src, CacheEntry(res))
                     /\ raw_post_list' = Append(raw_post_list, entry)
                     /\ all_tags' = all_tags \cup AsList(res.meta.tags)
                     /\ all_categories' = all_categories \cup AsList(res.meta.category)
                ELSE UNCHANGED <<public, cache, raw_post_list, all_tags, all_categories>>
    /\ ri' = ri + 1
    /\ pc' = IF ri' = Len(results) THEN "aggregate" ELSE "post"
    /\ UNCHANGED <<content, cacheFile, force, tasks, pending, results, nSave, finishLog,
                   before, dirty, last, nBuilds, nEdits>>
    /\ UNCHANGED fm_vars

\* the failed write of line 227 with the cache flushed on the way out
PageWriteFails_Flush ==
    /\ pc = "post"
    /\ ri < Len(results)
    /\ IsWritten(results[ri + 1], force)
    /\ hookLog' = hookLog \o RunHooks(1, results[ri + 1], results[ri + 1].html).calls
    /\ cacheFile' = Snapshot(cache)
    /\ pc' = "aborted"
    /\ last' = "aborted"
    /\ UNCHANGED <<content, public, force, cache, tasks, pending, results, ri,
                   raw_post_list, all_tags, all_categories, nSave, finishLog, before,
                   dirty, nBuilds, nEdits>>
    /\ UNCHANGED fm_vars

\* write_file raises (the output directory cannot be written) on the page of
\* the next result, after its hooks ran.  Nothing catches it.
PageWriteFails ==
    /\ pc = "post"
    /\ ri < Len(results)
    /\ IsWritten(results[ri + 1], force)
    /\ hookLog' = hookLog \o RunHooks(1, results[ri + 1], results[ri + 1].html).calls
    /\ pc' = "aborted"
    /\ last' = "aborted"
    /\ UNCHANGED <<content, cacheFile, public, force, cache, tasks, pending, results, ri,
                   raw_post_list, all_tags, all_categories, nSave, finishLog, before,
                   dirty, nBuilds, nEdits>>
    /\ UNCHANGED fm_vars

\* ------------------------------------------------- aggregation, steps 6-7
\* Python's str < str
LexLess(s, t) ==
    \E i \in 1..Len(t) :
        /\ \A j \in 1..(i - 1) : j <= Len(s) /\ s[j] = t[j]
        /\ (i > Len(s) \/ s[i] < t[i])

\* sorted(all_tags), sorted(all_categories)
RECURSIVE sorted_names(_)
sorted_names(S) ==
    IF S = {} THEN <<>>
    ELSE LET m == CHOOSE x \in S : \A y \in S \ {x} : LexLess(x, y)
         IN  <<m>> \o sorted_names(S \ {m})

\* key=lambda p: p['meta'].get('date', datetime(1970, 1, 1)): a declared date
\* is a datetime.date, the default a datetime.datetime, and Python refuses to
\* compare the two (TypeError)
SortRaises(list) ==
    \E i, j \in 1..Len(list) : list[i].meta.date = 0 /\ list[j].meta.date # 0

\* sorted(..., reverse=True) is stable: of two entries with the same key the
\* one earlier in the list stays first
InsertDesc(s, e) ==
    LET n == Cardinality({i \in 1..Len(s) : s[i].meta.date >= e.meta.date})
    IN  SubSeq(s, 1, n) \o <<e>> \o SubSeq(s, n + 1, Len(s))

RECURSIVE sorted_posts(_)
sorted_posts(list) ==
    IF list = <<>> THEN <<>>
    ELSE InsertDesc(sorted_posts(SubSeq(list, 1, Len(list) - 1)), list[Len(list)])

\* Python's `in`: a substring test on a str
IsSubstring(t, s) ==
    \E k \in 0..(Len(s) - Len(t)) : \A j \in 1..Len(t) : s[k + j] = t[j]

\* `name in p["meta"].get(key, [])`, lines 276 and 302: the field is used as
\* the front matter gave it (a str is not wrapped here)
InField(name, field) ==
    CASE field.kind = "absent" -> FALSE
      [] field.kind = "str" -> IsSubstring(name, field.val[1])
      [] field.kind = "list" -> name \in Range(field.val)

posts_for_tag(tag) == SelectSeq(raw_post_list, LAMBDA p : InField(tag, p.meta.tags))

posts_for_cat(cat) == SelectSeq(raw_post_list, LAMBDA p : InField(cat, p.meta.category))

Page(posts, tags, cats) == [exists |-> TRUE, posts |-> posts, tags |-> tags, cats |-> cats]

\* the pages of lines 264-323, written over what the output tree holds
Aggregated(tree) ==
    [tree EXCEPT
        !.home = Page(sorted_posts(raw_post_list), sorted_names(all_tags),
                      sorted_names(all_categories)),
        !.tags = [t \in DOMAIN tree.tags \cup all_tags |->
                    IF t \in all_tags THEN Page(posts_for_tag(t), <<t>>, <<>>)
                    ELSE tree.tags[t]],
        !.tagIndex = Page(<<>>, sorted_names(all_tags), <<>>),
        !.cats = [c \in DOMAIN tree.cats \cup all_categories |->
                    IF c \in all_categories THEN Page(posts_for_cat(c), <<>>, <<c>>)
                    ELSE tree.cats[c]],
        !.catIndex = Page(<<>>, <<>>, sorted_names(all_categories))]

\* lines 250-323: sort the collected entries, render and write the home index,
\* the tag pages and index, the category pages and index
Aggregate ==
    /\ pc = "aggregate"
    /\ IF SortRaises(raw_post_list)
         THEN /\ pc' = "aborted"
              /\ last' = "aborted"
              /\ UNCHANGED public
         ELSE /\ public' = Aggregated(public)
              /\ pc' = "save"
              /\ UNCHANGED last
    /\ UNCHANGED <<content, cacheFile, dirty, nBuilds, nEdits>>
    /\ UNCHANGED build_locals
    /\ UNCHANGED fm_vars

\* write_file raises on the home index
IndexWriteFails ==
    /\ pc = "aggregate"
    /\ pc' = "aborted"
    /\ last' = "aborted"
    /\ UNCHANGED <<content, cacheFile, public, dirty, nBuilds, nEdits>>
    /\ UNCHANGED build_locals
    /\ UNCHANGED fm_vars

\* ------------------------------------------------------------ steps 8-9
\* _save_cache called from inside the write loop as well, after each document
SaveCache_PerDocument ==
    /\ pc \in {"post", "save"}
    /\ nSave <= Len(results)
    /\ cacheFile' = Snapshot(cache)
    /\ nSave' = nSave + 1
    /\ pc' = IF pc = "save" THEN "finish" ELSE pc
    /\ UNCHANGED <<content, public, force, cache, tasks, pending, results, ri,
                   raw_post_list, all_tags, all_categories, hookLog, finishLog, before,
                   dirty, last, nBuilds, nEdits>>
    /\ UNCHANGED fm_vars

\* _save_cache with the entries of sources that are gone left out
SaveCache_Prune ==
    /\ pc = "save"
    /\ cacheFile' = Snapshot([s \in DOMAIN cache \cap DOMAIN content |-> cache[s]])
    /\ nSave' = nSave + 1
    /\ pc' = "finish"
    /\ UNCHANGED <<content, public, force, cache, tasks, pending, results, ri,
                   raw_post_list, all_tags, all_categories, hookLog, finishLog, before,
                   dirty, last, nBuilds, nEdits>>
    /\ UNCHANGED fm_vars

\* _save_cache: the whole mapping overwrites the snapshot
SaveCache ==
    /\ pc = "save"
    /\ cacheFile' = Snapshot(cache)
    /\ nSave' = nSave + 1
    /\ pc' = "finish"
    /\ UNCHANGED <<content, public, force, cache, tasks, pending, results, ri,
                   raw_post_list, all_tags, all_categories, hookLog, finishLog, before,
                   dirty, last, nBuilds, nEdits>>
    /\ UNCHANGED fm_vars

\* get_posts(include_drafts): it goes over every cache entry and reads the
\* entry's source file again, which raises when the file is gone; the posts
\* are the entries whose source is not a draft (or all of them)
get_posts(include_drafts) ==
    [raised |-> \E s \in DOMAIN cache : s \notin DOMAIN content,
     posts |-> {s \in DOMAIN cache \cap DOMAIN content :
                  include_drafts \/ ~parse_front_matter(content[s]).meta.draft}]

\* p.on_build_finished(generator): raised or not.  "stamp" goes through
\* generator.get_posts() and raises KeyError on a post without a date;
\* "wordcount" keeps Plugin.on_build_finished, which does nothing.
on_build_finished(p) ==
    CASE p = "stamp" ->
            [raised |-> \/ get_posts(FALSE).raised
                        \/ \E s \in get_posts(FALSE).posts :
                              parse_front_matter(content[s]).meta.date = 0]
      [] p = "wordcount" -> [raised |-> FALSE]

\* the loop of lines 330-334 without its try / except: the first raise ends it
FinishedCalls_NoCatch ==
    LET firstRaise == {i \in 1..Len(plugins) : on_build_finished(plugins[i]).raised}
        n == IF firstRaise = {} THEN Len(plugins)
             ELSE CHOOSE i \in firstRaise : \A j \in firstRaise : i <= j
    IN  [i \in 1..n |-> [plugin |-> plugins[i],
                         raised |-> on_build_finished(plugins[i]).raised]]

\* the loop of lines 330-334: every plugin is called, a raise is printed
FinishedCalls ==
    [i \in 1..Len(plugins) |-> [plugin |-> plugins[i],
                                raised |-> on_build_finished(plugins[i]).raised]]

\* the on_build_finished loop, and build returns
Finish ==
    /\ pc = "finish"
    /\ finishLog' = FinishedCalls
    /\ pc' = "done"
    /\ last' = "done"
    /\ dirty' = {}
    /\ UNCHANGED <<content, cacheFile, public, nBuilds, nEdits>>
    /\ UNCHANGED <<force, cache, tasks, pending, results, ri, raw_post_list, all_tags,
                   all_categories, hookLog, nSave, before>>
    /\ UNCHANGED fm_vars

\* ----------------------------------------------------------- the author
\* The author edits between two invocations.  Init already holds every
\* content tree of documents that render, so an edit before the first build
\* adds nothing, and neither does one that no build follows.
MayEdit == Quiescent /\ last # "none" /\ nEdits < MaxEdits /\ nBuilds < MaxBuilds

\* The author rewrites the body of a document.  Bodies are revisions: an edit
\* moves to the next one, and the revision after MaxBody is the body that does
\* not render (revision 0).
Rewrite(p, b) ==
    /\ p \in DOMAIN content
    /\ b = (content[p].body + 1) % (MaxBody + 1)
    /\ content' = [content EXCEPT ![p].body = b]
    /\ dirty' = dirty \cup {<<p, "body">>}
    /\ nEdits' = nEdits + 1
    /\ pc' = "idle"
    /\ UNCHANGED <<cacheFile, public, last, nBuilds>>
    /\ UNCHANGED build_locals
    /\ UNCHANGED fm_vars

\* the author sets or clears draft: true; a second change of the same
\* document puts the key back to what the last completed build read
Toggle(p, d) ==
    /\ p \in DOMAIN content
    /\ d # content[p].draft
    /\ content' = [content EXCEPT ![p].draft = d]
    /\ dirty' = IF <<p, "draft">> \in dirty THEN dirty \ {<<p, "draft">>}
                ELSE dirty \cup {<<p, "draft">>}
    /\ nEdits' = nEdits + 1
    /\ pc' = "idle"
    /\ UNCHANGED <<cacheFile, public, last, nBuilds>>
    /\ UNCHANGED build_locals
    /\ UNCHANGED fm_vars

EditBody(p, b) == MayEdit /\ Rewrite(p, b)

SetDraft(p, d) == MayEdit /\ Toggle(p, d)

\* ------------------------------------------------------- the cache file
\* between two invocations something happens to CACHE_FILE
MayTamper == Quiescent /\ last # "none" /\ nBuilds < MaxBuilds

\* the file is cut short or overwritten: json.loads will raise on it
CorruptCache ==
    /\ MayTamper
    /\ cacheFile.exists /\ ~cacheFile.corrupt
    /\ cacheFile' = [cacheFile EXCEPT !.corrupt = TRUE]
    /\ pc' = "idle"
    /\ UNCHANGED <<content, public, dirty, last, nBuilds, nEdits>>
    /\ UNCHANGED build_locals
    /\ UNCHANGED fm_vars

\* the file is deleted, the output tree stays
RemoveCache ==
    /\ MayTamper
    /\ cacheFile.exists
    /\ cacheFile' = NoSnapshot
    /\ pc' = "idle"
    /\ UNCHANGED <<content, public, dirty, last, nBuilds, nEdits>>
    /\ UNCHANGED build_locals
    /\ UNCHANGED fm_vars

\* ---------------------------------------------- parse_front_matter alone
pipeline_vars == <<content, cacheFile, public, pc, force, cache, tasks, pending, results,
                   ri, raw_post_list, all_tags, all_categories, hookLog, nSave, finishLog,
                   before, dirty, last, nBuilds, nEdits>>

\* any text of up to MaxLines lines, not parsed yet; no site
InitFM ==
    /\ fm_text \in TextsUpTo(MaxLines)
    /\ fm_out = NotCalled
    /\ content = Empty
    /\ cacheFile = NoSnapshot
    /\ public = EmptyTree
    /\ pc = "idle"
    /\ force = FALSE
    /\ cache = Empty
    /\ tasks = <<>>
    /\ pending = {}
    /\ results = <<>>
    /\ ri = 0
    /\ raw_post_list = <<>>
    /\ all_tags = {}
    /\ all_categories = {}
    /\ hookLog = <<>>
    /\ nSave = 0
    /\ finishLog = <<>>
    /\ before = [public |-> EmptyTree, cacheFile |-> NoSnapshot, dirty |-> {}, last |-> "none",
                 prev |-> NoPrev]
    /\ dirty = {}
    /\ last = "none"
    /\ nBuilds = 0
    /\ nEdits = 0

\* the call parse_front_matter(text)
ParseFrontMatter ==
    /\ ~fm_out.called
    /\ fm_out' = parse_front_matter_raw(fm_text)
    /\ UNCHANGED fm_text
    /\ UNCHANGED pipeline_vars

SpecFM == InitFM /\ [][ParseFrontMatter]_vars

\* the pipeline on a file system that takes every write
Next ==
    \/ \E frc \in BOOLEAN : StartBuild(frc)
    \/ \E f \in Files : Collect(f)
    \/ WriteResult
    \/ Aggregate
    \/ SaveCache
    \/ Finish
    \/ \E p \in Paths, b \in 0..MaxBody : EditBody(p, b)
    \/ \E p \in Paths, d \in BOOLEAN : SetDraft(p, d)

Spec == Init /\ [][Next]_vars

\* the same pipeline on a file system whose writes may fail
NextIO ==
    \/ Next
    \/ PageWriteFails
    \/ IndexWriteFails

SpecIO == Init /\ [][NextIO]_vars

\* A site that starts with published documents only, each with its first
\* body, followed over one more invocation and one more edit than MaxBuilds
\* and MaxEdits give.
InitLong ==
    /\ Init
    /\ \A f \in DOMAIN content : ~content[f].draft /\ content[f].body = 1

MayEditLong ==
    Quiescent /\ last # "none" /\ nEdits < MaxEdits + 1 /\ nBuilds < MaxBuilds + 1

StartBuildLong(frc) == nBuilds < MaxBuilds + 1 /\ Startup(frc)

EditBodyLong(p, b) == MayEditLong /\ Rewrite(p, b)

SetDraftLong(p, d) == MayEditLong /\ Toggle(p, d)

NextLong ==
    \/ \E frc \in BOOLEAN : StartBuildLong(frc)
    \/ \E f \in Paths : Collect(f)
    \/ WriteResult
    \/ Aggregate
    \/ SaveCache
    \/ Finish
    \/ \E p \in Paths, b \in 0..MaxBody : EditBodyLong(p, b)
    \/ \E p \in Paths, d \in BOOLEAN : SetDraftLong(p, d)

SpecLong == InitLong /\ [][NextLong]_vars

\* the author saves a new body while build() is running: after the decision
\* of lines 188-196 and before the last read of line 232
LiveEdit(p) ==
    /\ pc \in {"render", "post"}
    /\ nEdits < MaxEdits
    /\ p \in DOMAIN content
    /\ content' = [content EXCEPT ![p].body = (@ + 1) % (MaxBody + 1)]
    /\ dirty' = dirty \cup {<<p, "body">>}
    /\ nEdits' = nEdits + 1
    /\ UNCHANGED <<cacheFile, public, pc, last, nBuilds>>
    /\ UNCHANGED build_locals
    /\ UNCHANGED fm_vars

\* the pipeline with an author who does not wait for it
NextLive ==
    \/ Next
    \/ \E p \in Paths : LiveEdit(p)

SpecLive == Init /\ [][NextLive]_vars

\* A fresh site with the page pages/a.md and any posts beside it, all
\* published documents that render.
InitPages ==
    /\ content \in UNION {[S \cup PagePaths -> {t \in Texts : t.body > 0 /\ ~t.draft}] :
                              S \in SUBSET Paths}
    /\ Fresh

SpecPages == InitPages /\ [][Next]_vars

\* the author deletes a source file between two invocations
DeleteSource(p) ==
    /\ MayEditLong
    /\ p \in DOMAIN content
    /\ content' = [f \in DOMAIN content \ {p} |-> content[f]]
    /\ dirty' = dirty \cup {<<p, "deleted">>}
    /\ nEdits' = nEdits + 1
    /\ pc' = "idle"
    /\ UNCHANGED <<cacheFile, public, last, nBuilds>>
    /\ UNCHANGED build_locals
    /\ UNCHANGED fm_vars

\* the command `clean`: the output directory is emptied, CACHE_FILE unlinked
clean ==
    /\ Quiescent /\ last # "none" /\ nBuilds < MaxBuilds + 1
    /\ cacheFile.exists \/ public # EmptyTree
    /\ public' = EmptyTree
    /\ cacheFile' = NoSnapshot
    /\ pc' = "idle"
    /\ UNCHANGED <<content, dirty, last, nBuilds, nEdits>>
    /\ UNCHANGED build_locals
    /\ UNCHANGED fm_vars

\* the long run of a site whose sources may be deleted and which may be cleaned
NextDelete ==
    \/ NextLong
    \/ \E p \in Paths : DeleteSource(p)
    \/ clean

SpecDelete == InitLong /\ [][NextDelete]_vars

\* the pipeline with a cache file that may be lost or damaged between builds
NextCache ==
    \/ Next
    \/ CorruptCache
    \/ RemoveCache

SpecCache == Init /\ [][NextCache]_vars

\* =================================================================== claims
\* the process is inside build(), past the dispatch
InBuild == pc \in {"render", "post", "aggregate", "save", "finish"}

\* build() is running or has just ended, and the content tree is the one it read
BuildSeen == InBuild \/ pc \in {"done", "aborted"}

\* the cache as the invocation loaded it
LoadedPosts == load_cache(before.cacheFile)

Dispatched == Range(tasks)

Rendered == {results[i].src : i \in 1..Len(results)}

IsDraft(f) == parse_front_matter(content[f]).meta.draft

Stale(f) == f \notin DOMAIN LoadedPosts \/ LoadedPosts[f].hash # compute_hash(content[f])

\* C1 as stated: a discovered document is dispatched if and only if force is
\* set, or the cache has no entry for its path, or the stored hash differs from
\* the hash of its current raw text.
C1_DispatchIffStale ==
    BuildSeen => \A f \in DOMAIN content : (f \in Dispatched) <=> (force \/ Stale(f))

\* C1 amended: a discovered document is dispatched if and only if force is
\* set, or it is not a draft and the cache has no entry for its path or the
\* stored hash differs from the hash of its current raw text.
C1_DispatchIffStaleNonDraft ==
    BuildSeen =>
        \A f \in DOMAIN content :
            (f \in Dispatched) <=> (force \/ (~IsDraft(f) /\ Stale(f)))

\* a default build that skips a draft the cache has no entry for, dispatches
\* an edited document and leaves out one whose hash is the stored one
C1_Witness ==
    /\ InBuild
    /\ ~force
    /\ \E f \in DOMAIN content : IsDraft(f) /\ f \notin DOMAIN LoadedPosts /\ f \notin Dispatched
    /\ \E g \in DOMAIN content :
          g \in DOMAIN LoadedPosts /\ LoadedPosts[g].hash # compute_hash(content[g])
          /\ g \in Dispatched

\* the hashes the snapshot holds, by source path
Hashes(snapshot) == [f \in DOMAIN snapshot.posts |-> snapshot.posts[f].hash]

\* the invocation before this one completed, and this one runs with default flags
Rebuild == ~force /\ before.last = "done"

\* C2: a second build with default flags and no change to any content file
\* re-renders no document, leaves the cached hashes as they were and leaves
\* the output tree (document pages, home index, tag and category pages, both
\* taxonomy indexes) identical to what the first build produced.
C2_Idempotent ==
    (pc = "done" /\ Rebuild /\ before.dirty = {}) =>
        /\ Dispatched = {}
        /\ Rendered = {}
        /\ Hashes(cacheFile) = Hashes(before.cacheFile)
        /\ public = before.public

\* the only edits since the completed build are of the body of d, and they
\* left d with another hash than the stored one
BodyEditOf(d) == before.dirty = {<<d, "body">>} /\ Stale(d)

\* every document was in the cache when the invocation started
AllCached == \A f \in DOMAIN content : f \in DOMAIN LoadedPosts

\* C3 as stated: with every document built and cached, after an edit of the
\* body of exactly one document d the next default build renders exactly d.
C3_RendersExactlyEdited ==
    \A d \in DOMAIN content :
        (BuildSeen /\ Rebuild /\ AllCached /\ BodyEditOf(d)) => Dispatched = {d}

\* C3 amended: with every document built and cached, after an edit of the
\* body of exactly one document d that is not a draft, the next default build
\* dispatches exactly d, and the renders it collects are of d alone; no
\* document whose raw text is unchanged is rendered.
C3_RendersExactlyEditedNonDraft ==
    \A d \in DOMAIN content :
        (BuildSeen /\ Rebuild /\ AllCached /\ BodyEditOf(d) /\ ~IsDraft(d)) =>
            /\ Dispatched = {d}
            /\ Rendered \subseteq {d}
            /\ pc \in {"post", "aggregate", "save", "finish", "done"} => Rendered = {d}

\* two cached documents, the body of one edited, and the rebuild has rendered it
C3_Witness ==
    /\ pc = "done"
    /\ Rebuild
    /\ AllCached
    /\ DOMAIN content = Paths
    /\ \E d \in Paths : BodyEditOf(d) /\ ~IsDraft(d) /\ Rendered = {d}

\* the page of document f is in the output tree
HasPage(f) == safe_slug(f) \in DOMAIN public.docs

\* the URLs a page lists
Listed(page) == {page.posts[i].url : i \in 1..Len(page.posts)}

\* C4: after any build the home index lists every non-draft document that has
\* been written to the output tree, also one this build did not re-render.
C4_HomeListsAllWritten ==
    pc = "done" =>
        \A f \in DOMAIN content :
            (~IsDraft(f) /\ HasPage(f)) => safe_slug(f) \in Listed(public.home)

\* the names a front-matter field declares, a scalar counting as a list of one
Declares(meta_field, name) == name \in AsList(meta_field)

\* what is listed on the page of `name` is exactly the written documents of
\* this build whose `field` declares `name`
ListsExactly(pages, name, field) ==
    /\ name \in DOMAIN pages
    /\ Listed(pages[name]) =
          {raw_post_list[i].url : i \in {j \in 1..Len(raw_post_list) :
                                            Declares(raw_post_list[j].meta[field], name)}}

\* C5: after a build, for every tag (category) a rendered non-draft document
\* declares, as a scalar or as a list, the page of that tag (category) exists
\* and lists exactly the documents that declare it.
C5_TaxonomyExact ==
    pc = "done" =>
        \A i \in 1..Len(raw_post_list) :
            /\ \A t \in AsList(raw_post_list[i].meta.tags) :
                  ListsExactly(public.tags, t, "tags")
            /\ \A c \in AsList(raw_post_list[i].meta.category) :
                  ListsExactly(public.cats, c, "category")

\* the output tree holds for f the page it held when the invocation started,
\* or none as then: the build has not written it
PageUntouched(f) ==
    LET s == safe_slug(f)
    IN  IF s \in DOMAIN before.public.docs
          THEN s \in DOMAIN public.docs /\ public.docs[s] = before.public.docs[s]
          ELSE s \notin DOMAIN public.docs

\* the build has written its index and taxonomy pages
PagesOut == pc \in {"save", "finish", "done"}

\* f is on no tag or category page this build has written
OnNoTaxonomyPage(f) ==
    /\ \A t \in all_tags : safe_slug(f) \notin Listed(public.tags[t])
    /\ \A c \in all_categories : safe_slug(f) \notin Listed(public.cats[c])

\* f is on the page of every tag and category it declares
OnItsTaxonomyPages(f) ==
    LET meta == parse_front_matter(content[f]).meta
    IN  /\ \A t \in AsList(meta.tags) :
              t \in DOMAIN public.tags /\ safe_slug(f) \in Listed(public.tags[t])
        /\ \A c \in AsList(meta.category) :
              c \in DOMAIN public.cats /\ safe_slug(f) \in Listed(public.cats[c])

C7_DraftedOutputGone ==
    \A d \in Paths :
        (/\ pc = "done"
         /\ Rebuild
         /\ DOMAIN content = Paths
         /\ before.dirty = {<<d, "draft">>}
         /\ \A f \in Paths : IsDraft(f) <=> f = d
         /\ \A f \in Paths : safe_slug(f) \in DOMAIN before.public.docs) =>
            /\ \A f \in Paths : HasPage(f) <=> f # d
            /\ DOMAIN cacheFile.posts = Paths \ {d}

\* the k-th on_after_render call made for the j-th result
HookCall(j, k) == hookLog[(j - 1) * Len(plugins) + k]

\* what res["html"] holds after a call
After(call) == IF call.raised THEN call.given ELSE call.returned

\* C8: for each rendered document the on_after_render hooks run as a left fold
\* in plugin-list order: the first plugin is given the worker's HTML, every
\* later one the HTML its predecessor returned, or, when the predecessor
\* raised, the HTML the predecessor was given; a raise skips no plugin; and
\* the page written is the value after the last plugin.
C8_PluginFold ==
    /\ Len(hookLog) = ri * Len(plugins)
    /\ \A j \in 1..ri :
          /\ \A k \in 1..Len(plugins) :
                /\ HookCall(j, k).plugin = plugins[k]
                /\ HookCall(j, k).src = results[j].src
                /\ HookCall(j, k).given =
                      IF k = 1 THEN results[j].html ELSE After(HookCall(j, k - 1))
          /\ (j = ri /\ IsWritten(results[j], force)) =>
                public.docs[results[j].slug] = After(HookCall(j, Len(plugins)))

\* both cases in one build: for one document "stamp" raised and "wordcount"
\* was still called, with the HTML "stamp" had been given; for another
\* "stamp" returned and "wordcount" was given what it returned, which is not
\* what "stamp" was given
C8_Witness ==
    /\ ri = 2
    /\ \E j \in 1..ri :
          /\ HookCall(j, 1).raised
          /\ HookCall(j, 2).plugin = "wordcount"
          /\ HookCall(j, 2).given = HookCall(j, 1).given
    /\ \E j \in 1..ri :
          /\ ~HookCall(j, 1).raised
          /\ HookCall(j, 2).given = HookCall(j, 1).returned
          /\ HookCall(j, 2).given # HookCall(j, 1).given

\* some dispatched document cannot be rendered
SomeRenderFails == \E f \in Dispatched : RenderRaises(content[f])

\* C9: when the render of one dispatched document raises, the build does not
\* abort: every other dispatched document is written and cached, the index
\* and taxonomy pages are produced, the cache is flushed, and the failing
\* document gets no output file and no cache entry from this build.
C9_RenderFailureIsolated ==
    (pc \in {"done", "aborted"} /\ SomeRenderFails) =>
        /\ pc = "done"
        /\ nSave = 1
        /\ public.home = Page(sorted_posts(raw_post_list), sorted_names(all_tags),
                              sorted_names(all_categories))
        /\ \A f \in Dispatched :
              IF RenderRaises(content[f])
                THEN PageUntouched(f) /\ (f \in DOMAIN cacheFile.posts => f \in DOMAIN LoadedPosts)
                ELSE /\ HasPage(f)
                     /\ f \in DOMAIN cacheFile.posts
                     /\ cacheFile.posts[f].hash = compute_hash(content[f])

\* every result of the build that line 226 lets through has its page in the
\* output tree, and the index and taxonomy pages are those of this build
AllPagesWritten ==
    /\ ri = Len(results)
    /\ \A j \in 1..Len(results) : IsWritten(results[j], force) => results[j].slug \in DOMAIN public.docs
    /\ public.home = Page(sorted_posts(raw_post_list), sorted_names(all_tags),
                          sorted_names(all_categories))
    /\ \A t \in all_tags : t \in DOMAIN public.tags
    /\ \A c \in all_categories : c \in DOMAIN public.cats
    /\ public.tagIndex.exists /\ public.catIndex.exists

\* C10: the cache is persisted exactly once per successful build, after every
\* document page and every index and taxonomy page has been written; until
\* then, and in a build that aborts, the persisted snapshot is the one the
\* invocation found.
C10_OneFlushAtEnd ==
    /\ (InBuild \/ pc \in {"done", "aborted"}) =>
          /\ nSave <= 1
          /\ nSave = 0 => cacheFile = before.cacheFile
          /\ nSave = 1 => (cacheFile = Snapshot(cache) /\ AllPagesWritten)
    /\ pc \in {"render", "post", "aggregate", "save", "aborted"} => nSave = 0
    /\ pc \in {"finish", "done"} => nSave = 1

\* a build that wrote pages and cache entries in memory, then aborted, with
\* the snapshot still the one of the build before
C10_Witness ==
    /\ pc = "aborted"
    /\ before.cacheFile.exists
    /\ cache # before.cacheFile.posts
    /\ public.docs # before.public.docs
    /\ cacheFile = before.cacheFile

\* C11: on_build_finished is called once for every plugin of the list, in
\* list order, in a build that has written all its output and flushed the
\* cache, and not before; a plugin that raises does not keep the later ones
\* from being called.
C11_BuildFinishedHooks ==
    /\ InBuild => finishLog = <<>>
    /\ pc = "aborted" => finishLog = <<>>
    /\ pc = "done" =>
          /\ Len(finishLog) = Len(plugins)
          /\ \A i \in 1..Len(plugins) : finishLog[i].plugin = plugins[i]
          /\ nSave = 1
          /\ cacheFile = Snapshot(cache)
          /\ AllPagesWritten

\* a completed build in which the first plugin raised and the second was called
C11_Witness ==
    /\ pc = "done"
    /\ Len(finishLog) = 2
    /\ finishLog[1].raised
    /\ finishLog[2].plugin = "wordcount" /\ ~finishLog[2].raised

\* the invocation before this one aborted, and no file was edited since
AfterAbort == BuildSeen /\ before.prev.aborted

\* C12 as stated: a build that aborts before the final persist leaves the
\* snapshot as it found it, and the next invocation dispatches every document
\* the aborted build had dispatched.
C12_AbortedIsRedone ==
    /\ pc = "aborted" => cacheFile = before.cacheFile
    /\ AfterAbort => before.prev.tasks \subseteq Dispatched

\* C12 amended: a build that aborts before the final persist leaves the
\* snapshot as it found it, and the next invocation, no file being edited in
\* between, dispatches every document the aborted build had dispatched for
\* being stale: all of them when the aborted build ran with default flags or
\* the next one runs with force, and otherwise all but the drafts and the
\* documents whose stored hash is current.
C12_AbortedStaleIsRedone ==
    /\ pc = "aborted" => cacheFile = before.cacheFile
    /\ AfterAbort =>
          /\ (~before.prev.force \/ force) => before.prev.tasks \subseteq Dispatched
          /\ \A f \in before.prev.tasks :
                f \in Dispatched \/ IsDraft(f) \/ ~Stale(f)

\* a page write failed after another document was written and recorded in
\* memory, and the next default build has rendered that document again
C12_Witness ==
    /\ AfterAbort
    /\ ~force
    /\ pc = "post"
    /\ \E f \in before.prev.tasks :
          /\ safe_slug(f) \in DOMAIN before.public.docs
          /\ f \notin DOMAIN LoadedPosts
          /\ f \in Rendered

\* the invocation found no CACHE_FILE, or one json.loads raises on
NoUsableSnapshot == ~before.cacheFile.exists \/ before.cacheFile.corrupt

\* C13: when the persisted snapshot is missing or corrupt the build starts
\* with an empty cache, so that every entry of the cache is one this build
\* recorded, and it dispatches, and unless a render raises renders, every
\* document that is not a draft.
C13_NoSnapshotFullRebuild ==
    (BuildSeen /\ NoUsableSnapshot) =>
        /\ pc = "render" => cache = Empty
        /\ \A f \in DOMAIN cache : f \in Rendered
        /\ \A f \in DOMAIN content : ~IsDraft(f) => f \in Dispatched
        /\ pc \in {"post", "aggregate", "save", "finish", "done"} =>
              \A f \in DOMAIN content : ~IsDraft(f) => f \in Rendered

\* a default build right after a completed one, nothing edited, but the
\* snapshot with its entries corrupt: it has rendered the documents again
C13_Witness ==
    /\ pc = "done"
    /\ ~force
    /\ before.cacheFile.corrupt
    /\ before.cacheFile.posts # Empty
    /\ before.dirty = {}
    /\ Rendered = DOMAIN before.cacheFile.posts

\* the block between the first two delimiters is there and fails to parse
BlockFailsToParse(text) ==
    /\ StartsWithDelimiter(text)
    /\ Len(split(text)) >= 3
    /\ safe_load(split(text)[2]).kind = "raises"

\* C14: parse_front_matter on a text that does not begin with the delimiter,
\* or whose block between the first two delimiters fails to parse, gives the
\* empty mapping and the text itself, unchanged, as the body.
C14_FallbackKeepsText ==
    (fm_out.called /\ (~StartsWithDelimiter(fm_text) \/ BlockFailsToParse(fm_text))) =>
        /\ fm_out.meta = EmptyMeta
        /\ fm_out.body = fm_text

\* C15: while a dispatched render is still out no plugin hook has been
\* called, no page written, no cache entry recorded or flushed, no taxonomy
\* data collected and no index rendered; the write loop and all that follows
\* run with every dispatched document collected; and a result is what the
\* worker makes of the source text alone.
C15_FanInBarrier ==
    /\ (BuildSeen /\ pending # {}) =>
          /\ hookLog = <<>>
          /\ ri = 0
          /\ public = before.public
          /\ cache = LoadedPosts
          /\ cacheFile = before.cacheFile
          /\ raw_post_list = <<>>
          /\ all_tags = {} /\ all_categories = {}
    /\ pc \in {"post", "aggregate", "save", "finish", "done"} =>
          pending = {} /\ Rendered = Dispatched
    /\ BuildSeen => \A i \in 1..Len(results) : results[i] = render_post_worker(results[i].src)

\* a rebuild over an output tree and a cache that hold entries, with one
\* render collected and another still out
C15_Witness ==
    /\ pc = "render"
    /\ Len(results) = 1
    /\ pending # {}
    /\ before.public.docs # Empty
    /\ LoadedPosts # Empty

\* the entry of lines 237-240 for a dispatched source
EntryOf(f) == [meta |-> render_post_worker(f).meta, url |-> safe_slug(f)]

\* raw_post_list as it is when the renders complete in dispatch order
InDispatchOrder ==
    LET written == SelectSeq(tasks, LAMBDA f : IsWritten(render_post_worker(f), force))
    IN  [i \in 1..Len(written) |-> EntryOf(written[i])]

\* C16: the output tree and the cache a build ends with are those it ends
\* with when the renders complete in dispatch order: the document pages, the
\* cache entries, the home index with the order of its entries, and the tag
\* and category pages.
C16_OrderIndependent ==
    pc = "done" =>
        /\ \A j \in 1..Len(results) :
              IsWritten(results[j], force) =>
                  /\ public.docs[results[j].slug] = RunHooks(1, results[j], results[j].html).html
                  /\ cacheFile.posts[results[j].src] = CacheEntry(results[j])
        /\ public.home.posts = sorted_posts(InDispatchOrder)
        /\ \A t \in all_tags :
              public.tags[t].posts = SelectSeq(InDispatchOrder, LAMBDA e : InField(t, e.meta.tags))
        /\ \A c \in all_categories :
              public.cats[c].posts =
                  SelectSeq(InDispatchOrder, LAMBDA e : InField(c, e.meta.category))

\* every dispatched document was rendered and went through the write loop
WriteLoopDone == Rendered = Dispatched /\ pending = {} /\ ri = Len(results)

\* C17: a build that has rendered and written its documents produces the
\* home index, and its list is sorted by declared date, newest first, a
\* document without a date after every dated one, documents with the same
\* date in discovery order.
C17_HomeSortedByDate ==
    (pc \in {"done", "aborted"} /\ WriteLoopDone) =>
        /\ pc = "done"
        /\ \A i, j \in 1..Len(public.home.posts) :
              LET p == public.home.posts[i]
                  q == public.home.posts[j]
              IN  i < j =>
                    \/ p.meta.date > q.meta.date
                    \/ /\ p.meta.date = q.meta.date
                       /\ \E m, n \in 1..Len(tasks) :
                             m < n /\ safe_slug(tasks[m]) = p.url /\ safe_slug(tasks[n]) = q.url

\* since the completed build before this one the only edit is that d, a draft
\* then, is a draft no more
Undrafted(d) == before.dirty = {<<d, "draft">>} /\ ~IsDraft(d)

\* every cache entry belongs to a document whose page is in the output tree
EntriesOnlyForOutput == \A f \in DOMAIN cache : HasPage(f)

\* C18 as stated: cache entries are written only for documents that are
\* output, and a document the previous default build skipped as a draft, so
\* that it has no entry, is not dispatched by the next default build after
\* it is un-drafted with no other change.
C18_UndraftNotRerendered ==
    /\ BuildSeen => EntriesOnlyForOutput
    /\ \A d \in DOMAIN content :
          (BuildSeen /\ Rebuild /\ Undrafted(d) /\ d \notin DOMAIN LoadedPosts) =>
              d \notin Dispatched

\* the page the invocation found for d was rendered from the text d has now
OutputIsCurrent(d) ==
    LET fm == parse_front_matter(content[d])
    IN  /\ safe_slug(d) \in DOMAIN before.public.docs
        /\ before.public.docs[safe_slug(d)].page.meta = fm.meta
        /\ before.public.docs[safe_slug(d)].page.content = fm.body

\* C18 amended: cache entries are written only for documents that are
\* output, and after a completed build a document un-drafted with no other
\* change is left alone by the next default build exactly when its entry
\* holds the hash of its present text, in which case the page in the output
\* tree was rendered from that text; with no entry, or an entry recorded
\* while it was a draft (under force), it is dispatched, rendered and cached.
C18_UndraftRendersUnlessCurrent ==
    /\ BuildSeen => EntriesOnlyForOutput
    /\ \A d \in DOMAIN content :
          (BuildSeen /\ Rebuild /\ Undrafted(d)) =>
              /\ (d \notin Dispatched) <=>
                    (d \in DOMAIN LoadedPosts /\ LoadedPosts[d].hash = compute_hash(content[d]))
              /\ d \notin Dispatched => OutputIsCurrent(d)
              /\ (d \in Dispatched /\ pc \in {"aggregate", "save", "finish", "done"}) =>
                    /\ d \in Rendered
                    /\ d \in DOMAIN cache /\ cache[d].hash = compute_hash(content[d])

\* d was built, then marked draft and skipped by a default build, then
\* un-drafted: the next default build has completed without rendering it,
\* its page and its entry being those of the first build
C18_Witness ==
    \E d \in DOMAIN content :
        /\ pc = "done"
        /\ Rebuild
        /\ Undrafted(d)
        /\ nBuilds = MaxBuilds + 1
        /\ d \notin Dispatched
        /\ OutputIsCurrent(d)
        /\ d \in DOMAIN cacheFile.posts

\* the raw text a result was rendered from, as the worker read it
TextOf(res) ==
    [body |-> res.meta.content_raw, draft |-> res.meta.draft, tags |-> res.meta.tags,
     category |-> res.meta.category, date |-> res.meta.date]

\* C19: every cache entry a build records holds the hash of the raw text the
\* page written with it was rendered from, also when the source is saved
\* again while the build runs.
C19_HashOfRenderedText ==
    BuildSeen =>
        \A j \in 1..ri :
            IsWritten(results[j], force) =>
                cache[results[j].src].hash = compute_hash(TextOf(results[j]))

\* C20: in one build no two source documents are written to the same output
\* path, and no output path stands in the cache entries of two sources.
C20_OutputPathsDistinct ==
    BuildSeen =>
        /\ \A i, j \in 1..ri :
              (i # j /\ IsWritten(results[i], force) /\ IsWritten(results[j], force)) =>
                  results[i].slug # results[j].slug
        /\ \A f, g \in DOMAIN cache : f # g => cache[f].output # cache[g].output

\* a cache entry whose source file is gone
Orphans(posts) == {s \in DOMAIN posts : s \notin DOMAIN content}

\* a step keeps every entry of the snapshot and every document page
KeepsEntriesAndPages ==
    /\ DOMAIN cacheFile.posts \subseteq DOMAIN cacheFile'.posts
    /\ DOMAIN public.docs \subseteq DOMAIN public'.docs

\* C21: no step of build removes an entry from the snapshot or a document
\* page from the output tree, only clean does; the cache a build works on
\* and saves holds every entry it loaded, those of deleted sources too; and
\* in a completed build get_posts has gone over such an entry and raised on
\* reading its source, inside the first plugin's on_build_finished.
C21_BuildNeverRemoves ==
    /\ [][KeepsEntriesAndPages \/ clean]_vars
    /\ [](BuildSeen =>
            /\ DOMAIN LoadedPosts \subseteq DOMAIN cache
            /\ DOMAIN before.cacheFile.posts \subseteq DOMAIN cacheFile.posts
            /\ DOMAIN before.public.docs \subseteq DOMAIN public.docs
            /\ (pc = "done" /\ Orphans(cache) # {}) => finishLog[1].raised)

\* a source was deleted after it was built, and the second build after that
\* has completed: its entry and its page are still there, and get_posts raised
C21_Witness ==
    /\ pc = "done"
    /\ nBuilds = MaxBuilds + 1
    /\ before.cacheFile.exists /\ Orphans(before.cacheFile.posts) # {}
    /\ \E d \in Orphans(cacheFile.posts) :
          /\ d \in DOMAIN before.cacheFile.posts
          /\ safe_slug(d) \in DOMAIN public.docs
    /\ finishLog[1].raised

====
